---- MODULE Spec2Model ----
(***************************************************************************)
(* Columnar excitatory/inhibitory network of columnarEInetwork.py:         *)
(* ColumnarNetworkConfig, ColumnarNetwork (forward, sparse and dense       *)
(* storage), ColumnarTrainer (online structural wiring) and the inference  *)
(* step of main().                                                         *)
(*                                                                         *)
(* Tensors are functions: an activation vector is a function from the flat *)
(* index 0..N-1 to BOOLEAN (the (C,T,Br) output of a layer is kept in its  *)
(* row-major flattening, which is what .view(-1) reads); a connectivity    *)
(* table is a function from the cell <<column, type, branch, segment>> to  *)
(* the segment's content (sparse: a sequence of num_synapses indices,      *)
(* dense: a boolean mask over 0..prev_size-1).  The batch size is 1, as in *)
(* every call the repository makes.                                        *)
(***************************************************************************)
EXTENDS Integers, Sequences, FiniteSets, TLC

\* ------------------------------------------------------------------------
\* Bounds of the model
\* ------------------------------------------------------------------------
MaxSamples == 2      \* train_sample calls made on one trainer
MaxSeed == 7         \* configuration seeds 0..MaxSeed
StreamPeriod == 3    \* period of the generator's output stream
RawRange == 2        \* raw generator outputs are 0..RawRange-1

\* ------------------------------------------------------------------------
\* Program constants
\* ------------------------------------------------------------------------
MaxAttempts == 1000  \* while attempts < 1000
Unwired == -1        \* torch.full(shape, -1)

Instances == {1, 2}  \* independent network+trainer pairs

VARIABLES
    pc,                   \* per instance: "start", "configured", "ready", "eval", "viz"
    cfg,                  \* per instance: the ColumnarNetworkConfig
    connection_matrices,  \* per instance: sequence of L-1 tables
    segment_trained,      \* per instance: sequence of L-1 flag tables
    rng,                  \* per instance: position of trainer.rng in its stream
    trace,                \* per instance: trace of the latest forward pass
    pred_class,           \* per instance: sequence holding the latest prediction
    raised,               \* per instance: exception of the latest call, or "none"
    samples,              \* per instance: number of train_sample calls made
    graph                 \* per instance: sequence holding the graph drawn last

vars == <<pc, cfg, connection_matrices, segment_trained, rng, trace,
          pred_class, raised, samples, graph>>

\* ------------------------------------------------------------------------
\* 1 - Configuration
\* ------------------------------------------------------------------------
\* Constructor arguments; trainI is <<>> for None, <<i>> for the integer i.
Args(L, T, Br, S, K, st, bt, tS, tI, sp) ==
    [num_layers |-> L, num_columns |-> 2, num_types |-> T, num_branches |-> Br,
     num_segments |-> S, num_synapses |-> K, input_size |-> 2,
     seg_threshold |-> st, branch_threshold |-> bt,
     trainN |-> 1, trainB |-> 1, trainS |-> tS, trainI |-> tI,
     use_sparse_matrix |-> sp]

\* The argument records the model constructs configurations from.  Dense
\* storage is taken with num_layers = 2 only.
ConfigArgs ==
    { Args(2, 2, 1, 2, 2, 1, 1, 1, <<>>, TRUE),     \* base, sparse
      Args(2, 2, 1, 2, 2, 1, 1, 1, <<>>, FALSE),    \* base, dense
      Args(3, 2, 2, 1, 2, 1, 1, 1, <<>>, TRUE),     \* three layers, two branches
      Args(2, 2, 1, 2, 2, 1, 1, 1, <<1>>, TRUE),    \* trainI = 1 < num_synapses
      Args(2, 2, 1, 1, 3, 1, 1, 1, <<2>>, TRUE),    \* 1 < trainI < num_synapses
      Args(2, 2, 1, 2, 2, 1, 1, 1, <<1>>, FALSE),   \* trainI < num_synapses, dense
      Args(2, 2, 1, 2, 2, 1, 1, 1, <<3>>, TRUE),    \* trainI > num_synapses
      Args(2, 2, 1, 1, 2, 2, 1, 1, <<>>, TRUE),     \* seg_threshold = 2, sparse
      Args(2, 2, 1, 1, 2, 2, 1, 1, <<>>, FALSE),    \* seg_threshold = 2, dense
      Args(2, 2, 1, 2, 2, 1, 2, 2, <<>>, TRUE),     \* branch_threshold = 2
      Args(2, 1, 1, 1, 2, 1, 1, 1, <<>>, TRUE),     \* excitatory type only
      Args(2, 2, 1, 1, 2, 0, 1, 1, <<>>, TRUE),     \* seg_threshold = 0
      Args(1, 2, 1, 1, 2, 1, 1, 1, <<>>, TRUE) }    \* num_layers = 1

Seeds == 0..MaxSeed

\* The state of cfg before the dataclass is constructed.
NoConfig ==
    [num_layers |-> 0, num_columns |-> 0, num_types |-> 0, num_branches |-> 0,
     num_segments |-> 0, num_synapses |-> 0, input_size |-> 0,
     seg_threshold |-> 0, branch_threshold |-> 0,
     trainN |-> 0, trainB |-> 0, trainS |-> 0, trainI |-> 0,
     use_sparse_matrix |-> FALSE, seed |-> 0]

\* __post_init__: trainI defaults to num_synapses.
DefaultTrainI(a) == IF a.trainI = <<>> THEN a.num_synapses ELSE a.trainI[1]

\* __post_init__: assert self.trainI <= self.num_synapses
PostInitAccepts(a) == DefaultTrainI(a) <= a.num_synapses

PostInitConfig(a, seed) ==
    [num_layers |-> a.num_layers, num_columns |-> a.num_columns,
     num_types |-> a.num_types, num_branches |-> a.num_branches,
     num_segments |-> a.num_segments, num_synapses |-> a.num_synapses,
     input_size |-> a.input_size, seg_threshold |-> a.seg_threshold,
     branch_threshold |-> a.branch_threshold,
     trainN |-> a.trainN, trainB |-> a.trainB, trainS |-> a.trainS,
     trainI |-> DefaultTrainI(a),
     use_sparse_matrix |-> a.use_sparse_matrix, seed |-> seed]

\* ------------------------------------------------------------------------
\* 2 - Network: allocation and forward pass
\* ------------------------------------------------------------------------
Cells(c) ==
    (0..(c.num_columns - 1)) \X (0..(c.num_types - 1))
        \X (0..(c.num_branches - 1)) \X (0..(c.num_segments - 1))

\* ColumnarNetwork.__init__: prev_size of the table of layer l
prev_size(c, l) ==
    IF l = 1 THEN c.input_size ELSE c.num_columns * c.num_types

\* Number of units a layer's activation holds once flattened: the input has
\* input_size units, a later layer the (C, T, Br) tensor branch_on.
ActSize(c, l) ==
    IF l = 0 THEN c.input_size
    ELSE c.num_columns * c.num_types * c.num_branches

EmptySegment(c, l) ==
    IF c.use_sparse_matrix
    THEN [k \in 1..c.num_synapses |-> Unwired]
    ELSE [i \in 0..(prev_size(c, l) - 1) |-> FALSE]

NewConnectionMatrices(c) ==
    [l \in 1..(c.num_layers - 1) |-> [cell \in Cells(c) |-> EmptySegment(c, l)]]

NewSegmentTrained(c) ==
    [l \in 1..(c.num_layers - 1) |-> [cell \in Cells(c) |-> FALSE]]

\* Gathered with the torch.where mask left out: an unwired slot reads the
\* unit at the clamped index 0
Gathered_NoMask(idx, prev, k) == prev[IF idx[k] < 0 THEN 0 ELSE idx[k]]

\* _forward_sparse: gathered[k] of one segment
Gathered(idx, prev, k) == idx[k] >= 0 /\ prev[idx[k]]

\* _forward_sparse: seg_sum of one segment (duplicates counted each time)
SparseSegSum(idx, prev) ==
    Cardinality({k \in DOMAIN idx : Gathered(idx, prev, k)})

\* _forward_dense: seg_sum of one segment, popcount(conn & prev)
DenseSegSum(mask, prev) ==
    Cardinality({i \in DOMAIN mask : mask[i] /\ prev[i]})

SegSum(c, seg, prev) ==
    IF c.use_sparse_matrix THEN SparseSegSum(seg, prev) ELSE DenseSegSum(seg, prev)

\* A segment taken as active when its sum is at most the threshold
SegOn_AtMost(c, conn, prev, col, typ, b, s) ==
    SegSum(c, conn[<<col, typ, b, s>>], prev) <= c.seg_threshold

\* seg_on = seg_sum >= seg_threshold
SegOn(c, conn, prev, col, typ, b, s) ==
    SegSum(c, conn[<<col, typ, b, s>>], prev) >= c.seg_threshold

\* branch_on = seg_on.sum(-1) >= branch_threshold
BranchOn(c, conn, prev, col, typ, b) ==
    Cardinality({s \in 0..(c.num_segments - 1) : SegOn(c, conn, prev, col, typ, b, s)})
        >= c.branch_threshold

\* Row-major position of (col, typ, b) in the (C, T, Br) tensor
Flat(c, col, typ, b) == (col * c.num_types + typ) * c.num_branches + b

\* _forward_sparse / _forward_dense of one layer: the flattened branch_on
ForwardLayer(c, conn, prev) ==
    [i \in 0..(c.num_columns * c.num_types * c.num_branches - 1) |->
        BranchOn(c, conn, prev,
                 i \div (c.num_types * c.num_branches),
                 (i \div c.num_branches) % c.num_types,
                 i % c.num_branches)]

\* forward: the loop over layers, appending each activation to the trace
RECURSIVE ForwardTrace(_, _, _, _)
ForwardTrace(c, conns, tr, l) ==
    IF l >= c.num_layers THEN tr
    ELSE ForwardTrace(c, conns, Append(tr, ForwardLayer(c, conns[l], tr[l])), l + 1)

\* forward: trace[-1][:, :, 0] needs a 4-D last activation; with no layer
\* after the input the last activation is the 2-D input and indexing fails.
ForwardRaises(c) == c.num_layers < 2

\* forward: the trace; tr[1] is the input, tr[l + 1] the activation of layer l
forward(c, conns, x) == ForwardTrace(c, conns, <<x>>, 1)

\* forward: excitatory logits trace[-1][:, :, 0], summed over branches as in
\* main (excitatory_logits.sum(-1))
LogitSum(c, tr, col) ==
    Cardinality({b \in 0..(c.num_branches - 1) : tr[Len(tr)][Flat(c, col, 0, b)]})

\* argmax returning the index of the last maximal value
RECURSIVE ArgMaxFrom_LastMax(_, _, _, _)
ArgMaxFrom_LastMax(c, tr, best, col) ==
    IF col >= c.num_columns THEN best
    ELSE ArgMaxFrom_LastMax(c, tr,
                            IF LogitSum(c, tr, col) >= LogitSum(c, tr, best)
                            THEN col ELSE best,
                            col + 1)

\* argmax over columns: the index of the first maximal value
RECURSIVE ArgMaxFrom(_, _, _, _)
ArgMaxFrom(c, tr, best, col) ==
    IF col >= c.num_columns THEN best
    ELSE ArgMaxFrom(c, tr,
                    IF LogitSum(c, tr, col) > LogitSum(c, tr, best) THEN col ELSE best,
                    col + 1)

ArgMax(c, tr) == ArgMaxFrom(c, tr, 0, 1)

Inputs(c) == [0..(c.input_size - 1) -> BOOLEAN]

\* ------------------------------------------------------------------------
\* 3 - Trainer: random.Random(cfg.seed) and online structural learning
\* ------------------------------------------------------------------------
\* The generator's output stream is a function of the seed alone: the raw
\* output at position p is digit (p mod StreamPeriod) of the seed written in
\* base RawRange, so the seeds 0..RawRange^StreamPeriod-1 give every periodic
\* stream.  Each randbelow call consumes one raw output.
Raw(seed, pos) == (seed \div (RawRange ^ (pos % StreamPeriod))) % RawRange

\* random.Random._randbelow(n): an integer in 0..n-1
randbelow(seed, pos, n) == Raw(seed, pos) % n

Advance(pos, k) == (pos + k) % StreamPeriod

\* Tensor indexing accepts -C..C-1 on a dimension of size C
InRange(c, col) == -c.num_columns <= col /\ col < c.num_columns

\* Column indexing shifted by one
Wrap_OffByOne(c, col) == (col + 1) % c.num_columns

\* Tensor indexing with a possibly negative index: -C..-1 count from the end
Wrap(c, col) == IF col < 0 THEN col + c.num_columns ELSE col

\* One iteration that returns the drawn cell without reading its flag
Attempt_NoFlagCheck(c, flags, col, typ, st) ==
    IF ~InRange(c, col)
    THEN [st EXCEPT !.raised = TRUE, !.pos = Advance(st.pos, 2)]
    ELSE [st EXCEPT !.found = TRUE,
                    !.b = randbelow(c.seed, st.pos, c.num_branches),
                    !.s = randbelow(c.seed, st.pos + 1, c.num_segments),
                    !.pos = Advance(st.pos, 2)]

\* _untrained_segment: one iteration of the while loop.  st.found is set
\* when an untrained cell was drawn, st.raised when the flag tensor was
\* indexed out of range.
Attempt(c, flags, col, typ, st) ==
    LET b == randbelow(c.seed, st.pos, c.num_branches)
        s == randbelow(c.seed, st.pos + 1, c.num_segments)
        pos2 == Advance(st.pos, 2)
    IN  IF ~InRange(c, col)
        THEN [st EXCEPT !.raised = TRUE, !.pos = pos2]
        ELSE IF ~flags[<<Wrap(c, col), typ, b, s>>]
        THEN [st EXCEPT !.found = TRUE, !.b = b, !.s = s, !.pos = pos2]
        ELSE [st EXCEPT !.attempts = @ + 1, !.pos = pos2]

\* _untrained_segment: n further iterations of the while loop from st,
\* stopping at the first return or raise (the iterations are split in halves
\* to keep the evaluation shallow)
RECURSIVE Attempts(_, _, _, _, _, _)
Attempts(c, flags, col, typ, st, n) ==
    IF st.found \/ st.raised \/ n = 0 THEN st
    ELSE IF n = 1 THEN Attempt(c, flags, col, typ, st)
    ELSE LET mid == Attempts(c, flags, col, typ, st, n \div 2)
         IN  IF mid.found \/ mid.raised THEN mid
             ELSE Attempts(c, flags, col, typ, mid, n - (n \div 2))

\* The state of the loop before its first iteration
LoopStart(pos) ==
    [found |-> FALSE, raised |-> FALSE, b |-> 0, s |-> 0, pos |-> pos,
     attempts |-> 0]

\* The loop run while attempts <= 1000
untrained_segment_OneMore(c, flags, col, typ, pos) ==
    LET head == Attempts(c, flags, col, typ, LoopStart(pos), StreamPeriod)
    IN  IF head.found \/ head.raised THEN head
        ELSE [head EXCEPT !.attempts = MaxAttempts + 1,
                          !.pos = Advance(pos, 2 * (MaxAttempts + 1))]

\* _untrained_segment(layer, col, typ) on the flag table of that layer:
\* found = FALSE and raised = FALSE is the return of None.  A failing
\* iteration changes the generator position only, and after StreamPeriod
\* iterations the generator is back where the loop started: once the first
\* StreamPeriod iterations have all failed, each of the remaining ones, up to
\* MaxAttempts, repeats one of them and fails too, so only the first
\* StreamPeriod iterations are evaluated one by one.
untrained_segment(c, flags, col, typ, pos) ==
    LET head == Attempts(c, flags, col, typ, LoopStart(pos),
                         IF MaxAttempts < StreamPeriod THEN MaxAttempts
                         ELSE StreamPeriod)
    IN  IF head.found \/ head.raised \/ MaxAttempts <= StreamPeriod
        THEN head
        ELSE [head EXCEPT !.attempts = MaxAttempts,
                          !.pos = Advance(pos, 2 * MaxAttempts)]

\* The loop of _untrained_segment run iteration by iteration
untrained_segment_loop(c, flags, col, typ, pos) ==
    Attempts(c, flags, col, typ, LoopStart(pos), MaxAttempts)

\* total_prev = prev_act.numel()
numel(prev) == Cardinality(DOMAIN prev)

\* train_sample: the previous-layer indices, in ascending order, that are
\* active (want = TRUE) or inactive (want = FALSE)
IndexPool(prev, total, want) ==
    SelectSeq([i \in 1..total |-> i - 1], LAMBDA i : prev[i] = want)

\* The active pool built from the inactive units
idx_active_Inverted(prev, total) == IndexPool(prev, total, FALSE)

idx_active(prev, total) == IndexPool(prev, total, TRUE)

\* idx_inactive or [i for i in range(total_prev) if i not in idx_active]
idx_inactive(prev, total) ==
    IF IndexPool(prev, total, FALSE) # <<>>
    THEN IndexPool(prev, total, FALSE)
    ELSE SelectSeq([i \in 1..total |-> i - 1],
                   LAMBDA i : \A j \in 1..Len(idx_active(prev, total)) :
                                  idx_active(prev, total)[j] # i)

\* Every type drawing from the active pool
Pool_ActiveOnly(prev, total, typ) == idx_active(prev, total)

\* pool = idx_active if typ == 0 else idx_inactive or ...
Pool(prev, total, typ) ==
    IF typ = 0 THEN idx_active(prev, total) ELSE idx_inactive(prev, total)

\* pool * n: the list repeated n times
RECURSIVE Repeat(_, _)
Repeat(pool, n) == IF n <= 0 THEN <<>> ELSE pool \o Repeat(pool, n - 1)

\* pool * ((trainI // len(pool)) + 1)
Tiled(pool, trainI) == Repeat(pool, (trainI \div Len(pool)) + 1)

\* random.Random.sample(population, k) for a small population: k draws
\* j = randbelow(n - i); result[i] = pool[j]; pool[j] = pool[n - i - 1]
RECURSIVE SampleFrom(_, _, _, _, _)
SampleFrom(seed, pos, pool, chosen, k) ==
    IF k = 0 THEN [chosen |-> chosen, pos |-> pos]
    ELSE LET n == Len(pool)
             j == randbelow(seed, pos, n) + 1
         IN  SampleFrom(seed, Advance(pos, 1),
                        SubSeq([pool EXCEPT ![j] = pool[n]], 1, n - 1),
                        Append(chosen, pool[j]), k - 1)

Sample(seed, pos, population, k) == SampleFrom(seed, pos, population, <<>>, k)

\* seg[:] = torch.tensor(chosen): the shapes must match, a one-element
\* tensor is broadcast to every slot, any other length is a RuntimeError
SparseWriteRaises(c, chosen) ==
    Len(chosen) # c.num_synapses /\ Len(chosen) # 1

SparseWrite(c, chosen) ==
    IF Len(chosen) = c.num_synapses THEN chosen
    ELSE [k \in 1..c.num_synapses |-> chosen[1]]

\* seg.zero_(); seg[chosen] = True
DenseWrite(seg, chosen) ==
    [i \in DOMAIN seg |-> \E k \in 1..Len(chosen) : chosen[k] = i]

\* The loop body without the "if not pool: continue" guard: the division
\* cfg.trainI // len(pool) fails on an empty pool
WireStep_NoEmptyGuard(c, prev, class_id, st, l, typ) ==
    LET sel == untrained_segment(c, st.flags[l], class_id, typ, st.pos)
        cell == <<Wrap(c, class_id), typ, sel.b, sel.s>>
        marked == [st.flags EXCEPT ![l][cell] = TRUE]
        pool == Pool(prev, numel(prev), typ)
        smp == Sample(c.seed, sel.pos, Tiled(pool, c.trainI), c.trainI)
    IN  IF sel.raised
        THEN [st EXCEPT !.pos = sel.pos, !.raised = "IndexError"]
        ELSE IF ~sel.found
        THEN [st EXCEPT !.pos = sel.pos]
        ELSE IF pool = <<>>
        THEN [st EXCEPT !.pos = sel.pos, !.flags = marked,
                        !.raised = "ZeroDivisionError"]
        ELSE IF c.use_sparse_matrix /\ SparseWriteRaises(c, smp.chosen)
        THEN [st EXCEPT !.pos = smp.pos, !.flags = marked,
                        !.raised = "RuntimeError"]
        ELSE [st EXCEPT !.pos = smp.pos, !.flags = marked,
                        !.conns[l][cell] =
                            IF c.use_sparse_matrix
                            THEN SparseWrite(c, smp.chosen)
                            ELSE DenseWrite(@, smp.chosen)]

\* train_sample: the body of the innermost loop for layer l and type typ.
\* st holds the tables, the generator position and the exception raised so
\* far; prev is layers[l - 1][0].
WireStep(c, prev, class_id, st, l, typ) ==
    LET sel == untrained_segment(c, st.flags[l], class_id, typ, st.pos)
        cell == <<Wrap(c, class_id), typ, sel.b, sel.s>>
        marked == [st.flags EXCEPT ![l][cell] = TRUE]
        pool == Pool(prev, numel(prev), typ)
        smp == Sample(c.seed, sel.pos, Tiled(pool, c.trainI), c.trainI)
    IN  IF sel.raised
        THEN [st EXCEPT !.pos = sel.pos, !.raised = "IndexError"]
        ELSE IF ~sel.found
        THEN [st EXCEPT !.pos = sel.pos]
        ELSE IF pool = <<>>
        THEN [st EXCEPT !.pos = sel.pos, !.flags = marked]
        ELSE IF c.use_sparse_matrix /\ SparseWriteRaises(c, smp.chosen)
        THEN [st EXCEPT !.pos = smp.pos, !.flags = marked,
                        !.raised = "RuntimeError"]
        ELSE [st EXCEPT !.pos = smp.pos, !.flags = marked,
                        !.conns[l][cell] =
                            IF c.use_sparse_matrix
                            THEN SparseWrite(c, smp.chosen)
                            ELSE DenseWrite(@, smp.chosen)]

\* Number of passes of the trainN/trainB/trainS loops for one (layer, type)
Repeats(c) == c.trainN * c.trainB * c.trainS

\* train_sample: the loops over layers, types and repetitions, flattened in
\* execution order; step i belongs to layer StepLayer and type StepType
StepCount(c) == (c.num_layers - 1) * c.num_types * Repeats(c)
StepLayer(c, i) == (i \div (c.num_types * Repeats(c))) + 1
StepType(c, i) == (i \div Repeats(c)) % c.num_types

\* The loop nest reading each pool from a forward pass made again on the
\* tables as wired so far
RECURSIVE WireSteps_Reforward(_, _, _, _, _)
WireSteps_Reforward(c, tr, class_id, st, i) ==
    IF i >= StepCount(c) \/ st.raised # "none" THEN st
    ELSE WireSteps_Reforward(c, tr, class_id,
                             WireStep(c, forward(c, st.conns, tr[1])[StepLayer(c, i)],
                                      class_id, st, StepLayer(c, i), StepType(c, i)),
                             i + 1)

RECURSIVE WireSteps(_, _, _, _, _)
WireSteps(c, tr, class_id, st, i) ==
    IF i >= StepCount(c) \/ st.raised # "none" THEN st
    ELSE WireSteps(c, tr, class_id,
                   WireStep(c, tr[StepLayer(c, i)], class_id, st,
                            StepLayer(c, i), StepType(c, i)),
                   i + 1)

\* train_sample that wires its segments but leaves the trained flags alone
Wire_NoMark(c, conns, flags, pos, tr, class_id) ==
    [WireSteps(c, tr, class_id,
               [conns |-> conns, flags |-> flags, pos |-> pos, raised |-> "none"],
               0) EXCEPT !.flags = flags]

\* train_sample(x, class_id) after its forward pass produced the trace tr
Wire(c, conns, flags, pos, tr, class_id) ==
    WireSteps(c, tr, class_id,
              [conns |-> conns, flags |-> flags, pos |-> pos, raised |-> "none"],
              0)

Labels(c) == -1..c.num_columns

\* ------------------------------------------------------------------------
\* 4 - State machine: construction, training loop and inference of main()
\* ------------------------------------------------------------------------
\* An action is taken by the set N of instances that make the call: one
\* instance in Spec, both instances with the same arguments in SpecPair.
On(f, N, G(_)) == [n \in Instances |-> IF n \in N THEN G(n) ELSE f[n]]

TypeOK ==
    /\ pc \in [Instances -> {"start", "configured", "ready", "eval", "viz"}]
    /\ rng \in [Instances -> 0..(StreamPeriod - 1)]
    /\ samples \in [Instances -> 0..MaxSamples]

Init ==
    /\ pc = [n \in Instances |-> "start"]
    /\ cfg = [n \in Instances |-> NoConfig]
    /\ connection_matrices = [n \in Instances |-> <<>>]
    /\ segment_trained = [n \in Instances |-> <<>>]
    /\ rng = [n \in Instances |-> 0]
    /\ trace = [n \in Instances |-> <<>>]
    /\ pred_class = [n \in Instances |-> <<>>]
    /\ raised = [n \in Instances |-> "none"]
    /\ samples = [n \in Instances |-> 0]
    /\ graph = [n \in Instances |-> <<>>]

\* ColumnarNetworkConfig(...): the dataclass constructor and __post_init__
ConfigInit(N, a, seed) ==
    /\ \A n \in N : pc[n] = "start"
    /\ IF PostInitAccepts(a)
       THEN /\ cfg' = On(cfg, N, LAMBDA n : PostInitConfig(a, seed))
            /\ pc' = On(pc, N, LAMBDA n : "configured")
            /\ raised' = On(raised, N, LAMBDA n : "none")
       ELSE /\ raised' = On(raised, N, LAMBDA n : "AssertionError")
            /\ UNCHANGED <<cfg, pc>>
    /\ UNCHANGED <<connection_matrices, segment_trained, rng, trace,
                   pred_class, samples, graph>>

\* A generator built without the seed: its state differs between instances
TrainerRng_Unseeded(n, c) == n % StreamPeriod

\* ColumnarTrainer.__init__: self.rng = random.Random(cfg.seed) starts at
\* the head of the stream of that seed, whichever instance builds it
TrainerRng(n, c) == 0

\* ColumnarNetwork(cfg) followed by ColumnarTrainer(net, cfg)
NetworkInit(N) ==
    /\ \A n \in N : pc[n] = "configured"
    /\ connection_matrices' =
           On(connection_matrices, N, LAMBDA n : NewConnectionMatrices(cfg[n]))
    /\ segment_trained' = On(segment_trained, N, LAMBDA n : NewSegmentTrained(cfg[n]))
    /\ rng' = On(rng, N, LAMBDA n : TrainerRng(n, cfg[n]))
    /\ pc' = On(pc, N, LAMBDA n : "ready")
    /\ UNCHANGED <<cfg, trace, pred_class, raised, samples, graph>>

\* train_sample(x, class_id) of instance n: the tables, generator position,
\* exception and trace it leaves behind.  In an instance that holds no
\* network yet the call is not made; the record is then not used.
TrainOutcome(n, x, class_id) ==
    IF ForwardRaises(cfg[n])
    THEN [conns |-> connection_matrices[n], flags |-> segment_trained[n],
          pos |-> rng[n], raised |-> "IndexError", trace |-> trace[n]]
    ELSE LET tr == forward(cfg[n], connection_matrices[n], x)
             st == Wire(cfg[n], connection_matrices[n], segment_trained[n],
                        rng[n], tr, class_id)
         IN  [conns |-> st.conns, flags |-> st.flags, pos |-> st.pos,
              raised |-> st.raised, trace |-> tr]

\* main, training loop: trainer.train_sample(x, class_id)
TrainSample(N, x, class_id) ==
    /\ \A n \in N : pc[n] = "ready" /\ samples[n] < MaxSamples
    /\ samples' = On(samples, N, LAMBDA n : samples[n] + 1)
    /\ \E out \in {<<TrainOutcome(1, x, class_id), TrainOutcome(2, x, class_id)>>} :
           /\ connection_matrices' = On(connection_matrices, N, LAMBDA n : out[n].conns)
           /\ segment_trained' = On(segment_trained, N, LAMBDA n : out[n].flags)
           /\ rng' = On(rng, N, LAMBDA n : out[n].pos)
           /\ raised' = On(raised, N, LAMBDA n : out[n].raised)
           /\ trace' = On(trace, N, LAMBDA n : out[n].trace)
    /\ UNCHANGED <<pc, cfg, pred_class, graph>>

\* net(x) followed by excitatory_logits.sum(-1).argmax() in instance n: the
\* exception, trace and prediction they leave behind
InferOutcome(n, x) ==
    IF ForwardRaises(cfg[n])
    THEN [raised |-> "IndexError", trace |-> trace[n], pred_class |-> pred_class[n]]
    ELSE LET tr == forward(cfg[n], connection_matrices[n], x)
         IN  [raised |-> "none", trace |-> tr, pred_class |-> <<ArgMax(cfg[n], tr)>>]

\* main, after the training loop: net.eval(); excitatory_logits, trace =
\* net(test_x); pred_class = excitatory_logits.sum(-1).argmax().item()
Infer(N, x) ==
    /\ \A n \in N : pc[n] \in {"ready", "eval"}
    /\ pc' = On(pc, N, LAMBDA n : "eval")
    /\ \E out \in {<<InferOutcome(1, x), InferOutcome(2, x)>>} :
           /\ raised' = On(raised, N, LAMBDA n : out[n].raised)
           /\ trace' = On(trace, N, LAMBDA n : out[n].trace)
           /\ pred_class' = On(pred_class, N, LAMBDA n : out[n].pred_class)
    /\ UNCHANGED <<cfg, connection_matrices, segment_trained, rng, samples, graph>>

\* One network and its trainer, as main() runs them
Next ==
    \/ \E a \in ConfigArgs, seed \in Seeds : ConfigInit({1}, a, seed)
    \/ NetworkInit({1})
    \/ \E x \in Inputs(cfg[1]), class_id \in Labels(cfg[1]) :
           TrainSample({1}, x, class_id)
    \/ \E x \in Inputs(cfg[1]) : Infer({1}, x)

Spec == Init /\ [][Next]_vars

Built(n) == pc[n] \in {"ready", "eval"}
LayersOf(n) == 1..(cfg[n].num_layers - 1)
Columns(c) == 0..(c.num_columns - 1)
Types(c) == 0..(c.num_types - 1)

\* The wired previous-layer indices of a segment, in either storage form
WiredSet(c, seg) ==
    IF c.use_sparse_matrix
    THEN {seg[k] : k \in {j \in DOMAIN seg : seg[j] # Unwired}}
    ELSE {i \in DOMAIN seg : seg[i]}

\* The cells of one (column, type)
CellsOf(c, col, typ) == {cell \in Cells(c) : cell[1] = col /\ cell[2] = typ}

\* Two independent network+trainer instances built from the same arguments
\* and seed and fed the same calls
PairNext ==
    \/ \E a \in ConfigArgs, seed \in Seeds : ConfigInit(Instances, a, seed)
    \/ NetworkInit(Instances)
    \/ \E x \in Inputs(cfg[1]), class_id \in Labels(cfg[1]) :
           TrainSample(Instances, x, class_id)
    \/ \E x \in Inputs(cfg[1]) : Infer(Instances, x)

SpecPair == Init /\ [][PairNext]_vars

\* The forward pass on given connectivity content: instance 1 holds a sparse
\* table with any content in the segments of column 0, instance 2 the dense
\* table whose masks are the indicators of the wired index sets.
FwdArgs ==
    { Args(2, 1, 1, 2, 2, st, bt, 1, <<>>, TRUE) : st \in 1..2, bt \in 1..2 }

DenseOf(c, l, idx) ==
    [i \in 0..(prev_size(c, l) - 1) |-> \E k \in DOMAIN idx : idx[k] = i]

FwdInit ==
    \E a \in FwdArgs :
      LET cs == PostInitConfig(a, 0)
          cd == PostInitConfig([a EXCEPT !.use_sparse_matrix = FALSE], 0)
      IN  \E w \in [CellsOf(cs, 0, 0) ->
                      [1..cs.num_synapses -> Unwired..(cs.input_size - 1)]] :
            LET table == [cell \in Cells(cs) |->
                            IF cell \in DOMAIN w THEN w[cell] ELSE EmptySegment(cs, 1)]
            IN  /\ cfg = [n \in Instances |-> IF n = 1 THEN cs ELSE cd]
                /\ connection_matrices =
                       [n \in Instances |->
                          IF n = 1 THEN <<table>>
                          ELSE <<[cell \in Cells(cs) |-> DenseOf(cd, 1, table[cell])]>>]
                /\ segment_trained =
                       [n \in Instances |->
                          <<[cell \in Cells(cs) |->
                               \E k \in DOMAIN table[cell] : table[cell][k] # Unwired]>>]
                /\ pc = [n \in Instances |-> "ready"]
                /\ rng = [n \in Instances |-> 0]
                /\ trace = [n \in Instances |-> <<>>]
                /\ pred_class = [n \in Instances |-> <<>>]
                /\ raised = [n \in Instances |-> "none"]
                /\ samples = [n \in Instances |-> 0]
                /\ graph = [n \in Instances |-> <<>>]

FwdNext == \E n \in Instances : \E x \in Inputs(cfg[n]) : Infer({n}, x)

SpecFwd == FwdInit /\ [][FwdNext]_vars

\* The two storage forms trained side by side: instance 1 is built with
\* use_sparse_matrix = True, instance 2 with use_sparse_matrix = False and
\* otherwise the same arguments and seed, and both are fed the same calls.
FormsArgs ==
    {a \in ConfigArgs : a.num_layers = 2 /\ a.use_sparse_matrix /\ PostInitAccepts(a)}

FormsInit ==
    \E a \in FormsArgs, seed \in Seeds :
      LET form == [n \in Instances |->
                     PostInitConfig([a EXCEPT !.use_sparse_matrix = (n = 1)], seed)]
      IN  /\ cfg = form
          /\ connection_matrices = [n \in Instances |-> NewConnectionMatrices(form[n])]
          /\ segment_trained = [n \in Instances |-> NewSegmentTrained(form[n])]
          /\ rng = [n \in Instances |-> TrainerRng(n, form[n])]
          /\ pc = [n \in Instances |-> "ready"]
          /\ trace = [n \in Instances |-> <<>>]
          /\ pred_class = [n \in Instances |-> <<>>]
          /\ raised = [n \in Instances |-> "none"]
          /\ samples = [n \in Instances |-> 0]
          /\ graph = [n \in Instances |-> <<>>]

FormsNext ==
    \/ \E x \in Inputs(cfg[1]), class_id \in Labels(cfg[1]) :
           TrainSample(Instances, x, class_id)
    \/ \E x \in Inputs(cfg[1]) : Infer(Instances, x)

SpecForms == FormsInit /\ [][FormsNext]_vars

\* ------------------------------------------------------------------------
\* 5 - Visualisation: visualise_neuron(net, trace, layer, column, typ)
\* ------------------------------------------------------------------------
\* The (branch, segment) pairs of one neuron
BranchSegments(c) == (0..(c.num_branches - 1)) \X (0..(c.num_segments - 1))

\* visualise_neuron, first loop over s: seg_active of segment (b, s); prev is
\* trace[layer - 1][0].view(-1).  A sparse segment with no valid index is
\* inactive whatever the threshold.
VizSegActive(c, conn, prev, column, typ, b, s) ==
    LET seg == conn[<<column, typ, b, s>>]
    IN  IF c.use_sparse_matrix
        THEN /\ \E k \in DOMAIN seg : seg[k] >= 0
             /\ Cardinality({k \in DOMAIN seg : seg[k] >= 0 /\ prev[seg[k]]})
                   >= c.seg_threshold
        ELSE DenseSegSum(seg, prev) >= c.seg_threshold

\* visualise_neuron: branch_active = sum(seg_actives) >= branch_threshold
VizBranchActive(c, conn, prev, column, typ, b) ==
    Cardinality({s \in 0..(c.num_segments - 1) :
                    VizSegActive(c, conn, prev, column, typ, b, s)})
        >= c.branch_threshold

\* visualise_neuron, second loop over s: the previous-layer indices that get
\* an edge into the node of segment (b, s).  In sparse form the loop reads
\* the variable idx, which the first loop left at the cell of the last
\* segment of the branch; in dense form it reads the cell (b, s) again.
VizSources(c, conn, column, typ, b, s) ==
    IF c.use_sparse_matrix
    THEN LET idx == conn[<<column, typ, b, c.num_segments - 1>>]
         IN  {idx[k] : k \in {j \in DOMAIN idx : idx[j] >= 0}}
    ELSE LET dense == conn[<<column, typ, b, s>>]
         IN  {i \in DOMAIN dense : dense[i]}

\* visualise_neuron: the graph G, as the colour of each segment and branch
\* node and the synapse edges into each segment node
visualise_neuron(c, conns, tr, layer, column, typ) ==
    [layer |-> layer, column |-> column, typ |-> typ,
     seg_active |-> [bs \in BranchSegments(c) |->
                       VizSegActive(c, conns[layer], tr[layer], column, typ,
                                    bs[1], bs[2])],
     branch_active |-> [b \in 0..(c.num_branches - 1) |->
                          VizBranchActive(c, conns[layer], tr[layer], column, typ, b)],
     sources |-> [bs \in BranchSegments(c) |->
                    VizSources(c, conns[layer], column, typ, bs[1], bs[2])]]

\* main, --viz-neuron: visualise_neuron(net, trace, layer=1,
\* column=pred_class, typ=0) after the inference
VisualiseNeuron(N) ==
    /\ \A n \in N : pc[n] = "eval" /\ raised[n] = "none" /\ pred_class[n] # <<>>
    /\ pc' = On(pc, N, LAMBDA n : "viz")
    /\ graph' = On(graph, N, LAMBDA n :
                    <<visualise_neuron(cfg[n], connection_matrices[n], trace[n],
                                       1, pred_class[n][1], 0)>>)
    /\ UNCHANGED <<cfg, connection_matrices, segment_trained, rng, trace,
                   pred_class, raised, samples>>

\* main() run with --viz-neuron
VizNext ==
    \/ Next
    \/ VisualiseNeuron({1})

SpecViz == Init /\ [][VizNext]_vars

\* ------------------------------------------------------------------------
\* Properties
\* ------------------------------------------------------------------------
\* C1: once a segment's trained flag is set it stays set through every later
\* train_sample and forward call, _untrained_segment never returns a trained
\* cell, and a segment's synapse content changes only in the step that sets
\* its flag, hence at most once.
C1_WriteOnce ==
    [][\A n \in Instances : \A l \in DOMAIN segment_trained[n] :
         /\ \A cell \in DOMAIN segment_trained[n][l] :
               /\ segment_trained[n][l][cell] => segment_trained'[n][l][cell]
               /\ connection_matrices'[n][l][cell] # connection_matrices[n][l][cell]
                     => ~segment_trained[n][l][cell] /\ segment_trained'[n][l][cell]
         /\ pc[n] = "ready" =>
               \A col \in Columns(cfg[n]), typ \in Types(cfg[n]),
                  pos \in 0..(StreamPeriod - 1) :
                  \A sel \in {untrained_segment(cfg[n], segment_trained[n][l],
                                                 col, typ, pos)} :
                     sel.found => ~segment_trained[n][l][<<col, typ, sel.b, sel.s>>]
      ]_vars

\* C1 witness: two segments of one (layer, column, type) are trained and
\* wired, so the second was selected while the first was already trained,
\* and a forward call has followed.
C1_Witness ==
    \E n \in Instances : pc[n] = "eval" /\ \E l \in LayersOf(n) :
        \E c1 \in Cells(cfg[n]), c2 \in Cells(cfg[n]) :
            /\ c1 # c2 /\ c1[1] = c2[1] /\ c1[2] = c2[2]
            /\ segment_trained[n][l][c1] /\ segment_trained[n][l][c2]
            /\ WiredSet(cfg[n], connection_matrices[n][l][c1]) # {}
            /\ WiredSet(cfg[n], connection_matrices[n][l][c2]) # {}

\* C2: train_sample(x, k) with a class label k in [0, num_columns) leaves
\* every connectivity cell and every trained flag of a column other than k,
\* in every layer, exactly as it was.
C2_ColumnIsolation ==
    [][\A n \in Instances : \A k \in Columns(cfg[n]) :
         (/\ Len(trace'[n]) > 0
          /\ TrainSample({n}, trace'[n][1], k))
         => \A l \in LayersOf(n) : \A cell \in Cells(cfg[n]) :
               cell[1] # k =>
                  /\ connection_matrices'[n][l][cell] = connection_matrices[n][l][cell]
                  /\ segment_trained'[n][l][cell] = segment_trained[n][l][cell]
      ]_vars

\* C2 witness: after two samples some column holds trained, wired segments
\* while every cell of another column is still untrained and unwired.
C2_Witness ==
    \E n \in Instances : samples[n] = MaxSamples /\ \E l \in LayersOf(n) :
        \E k \in Columns(cfg[n]), other \in Columns(cfg[n]) :
            /\ other # k
            /\ \E cell \in Cells(cfg[n]) :
                  /\ cell[1] = k /\ segment_trained[n][l][cell]
                  /\ WiredSet(cfg[n], connection_matrices[n][l][cell]) # {}
            /\ \A cell \in Cells(cfg[n]) :
                  cell[1] = other =>
                     /\ ~segment_trained[n][l][cell]
                     /\ connection_matrices[n][l][cell] = EmptySegment(cfg[n], l)

\* A sparse segment that holds no wired index twice
NoDuplicate(idx) ==
    \A j \in DOMAIN idx, k \in DOMAIN idx :
        j # k /\ idx[j] # Unwired => idx[j] # idx[k]

\* Instances s (sparse) and d (dense) hold the same wiring: same shape and
\* thresholds, no duplicate sparse index, each dense mask the indicator of
\* the valid sparse indices of the same cell
SameWiring(s, d) ==
    /\ Built(s) /\ Built(d)
    /\ cfg[s].use_sparse_matrix /\ ~cfg[d].use_sparse_matrix
    /\ cfg[d] = [cfg[s] EXCEPT !.use_sparse_matrix = FALSE]
    /\ \A l \in LayersOf(s) : \A cell \in Cells(cfg[s]) :
          /\ NoDuplicate(connection_matrices[s][l][cell])
          /\ \A i \in 0..(prev_size(cfg[s], l) - 1) :
                connection_matrices[d][l][cell][i]
                    = (i \in WiredSet(cfg[s], connection_matrices[s][l][cell]))

\* C3: on a sparse and a dense encoding of the same duplicate-free wiring,
\* the forward step gives the same segment activations and the same branch
\* activations for every binary previous-layer vector, and the forward
\* passes made on the same input leave the same trace.
C3_RepresentationEquivalence ==
    \A s \in Instances, d \in Instances :
        SameWiring(s, d) =>
           /\ \A l \in LayersOf(s) : \A prev \in [0..(prev_size(cfg[s], l) - 1) -> BOOLEAN] :
                 /\ \A cell \in Cells(cfg[s]) :
                       SegOn(cfg[s], connection_matrices[s][l], prev,
                             cell[1], cell[2], cell[3], cell[4])
                         = SegOn(cfg[d], connection_matrices[d][l], prev,
                                 cell[1], cell[2], cell[3], cell[4])
                 /\ ForwardLayer(cfg[s], connection_matrices[s][l], prev)
                       = ForwardLayer(cfg[d], connection_matrices[d][l], prev)
           /\ (trace[s] # <<>> /\ trace[d] # <<>> /\ trace[s][1] = trace[d][1])
                 => trace[s] = trace[d] /\ pred_class[s] = pred_class[d]

\* C3 witness: both encodings have run forward on the same input; a segment
\* wired to two different indices, with a sentinel-free partner segment
\* holding an unwired slot, is active under seg_threshold = 2.
C3_Witness ==
    /\ SameWiring(1, 2)
    /\ trace[1] # <<>> /\ trace[2] # <<>> /\ trace[1][1] = trace[2][1]
    /\ cfg[1].seg_threshold = 2
    /\ connection_matrices[1][1][<<0, 0, 0, 0>>] = <<1, 0>>
    /\ connection_matrices[1][1][<<0, 0, 0, 1>>] = <<Unwired, 0>>
    /\ trace[1][2][Flat(cfg[1], 0, 0, 0)]
    /\ trace[2][2][Flat(cfg[2], 0, 0, 0)]

\* The (branch, segment) draws a call of _untrained_segment made
Draws(sel) == sel.attempts + (IF sel.found \/ sel.raised THEN 1 ELSE 0)

AllTrained(n, l, col, typ) ==
    \A cell \in CellsOf(cfg[n], col, typ) : segment_trained[n][l][cell]

\* C4: _untrained_segment returns after at most 1000 draws; when every
\* (branch, segment) cell of the (column, type) is trained it returns None,
\* and a train_sample call on a column whose cells are all trained returns
\* normally and changes no flag and no connectivity cell.
C4_ExhaustionTerminates ==
    \A n \in Instances : pc[n] = "ready" =>
        /\ \A l \in LayersOf(n), col \in Columns(cfg[n]), typ \in Types(cfg[n]),
              pos \in 0..(StreamPeriod - 1) :
              \A sel \in {untrained_segment(cfg[n], segment_trained[n][l],
                                             col, typ, pos)} :
                  /\ Draws(sel) <= MaxAttempts
                  /\ AllTrained(n, l, col, typ) => ~sel.found /\ ~sel.raised
        /\ \A k \in Labels(cfg[n]) :
              (/\ ~ForwardRaises(cfg[n])
               /\ InRange(cfg[n], k)
               /\ \A l \in LayersOf(n), typ \in Types(cfg[n]) :
                     AllTrained(n, l, Wrap(cfg[n], k), typ))
                 => \A x \in Inputs(cfg[n]) :
                       \A out \in {TrainOutcome(n, x, k)} :
                          /\ out.raised = "none"
                          /\ out.flags = segment_trained[n]
                          /\ out.conns = connection_matrices[n]

\* C4 witness: a trainer that can still be called holds a column whose
\* cells are all trained, in every layer and type.
C4_Witness ==
    \E n \in Instances :
        /\ pc[n] = "ready" /\ samples[n] > 0 /\ samples[n] < MaxSamples
        /\ cfg[n].num_layers > 1
        /\ \E col \in Columns(cfg[n]) :
              \A l \in LayersOf(n), typ \in Types(cfg[n]) : AllTrained(n, l, col, typ)

C6_PoolByType ==
    [][\A n \in Instances : samples'[n] # samples[n] =>
         \A l \in LayersOf(n) : \A cell \in Cells(cfg[n]) :
            connection_matrices'[n][l][cell] # connection_matrices[n][l][cell] =>
               \A i \in WiredSet(cfg[n], connection_matrices'[n][l][cell]) :
                  trace'[n][l][i] = (cell[2] = 0)
      ]_vars

\* C6 witness: after a sample, an excitatory and an inhibitory segment of
\* one layer are both wired.
C6_Witness ==
    \E n \in Instances : samples[n] > 0 /\ \E l \in LayersOf(n) :
        \E e \in Cells(cfg[n]), i \in Cells(cfg[n]) :
            /\ e[2] = 0 /\ WiredSet(cfg[n], connection_matrices[n][l][e]) # {}
            /\ i[2] = 1 /\ WiredSet(cfg[n], connection_matrices[n][l][i]) # {}

\* The ranges the configuration fields are documented to lie in
ValidConfig(c) ==
    /\ c.num_layers >= 2
    /\ c.num_columns >= 1 /\ c.num_branches >= 1 /\ c.num_segments >= 1
    /\ c.num_synapses >= 1 /\ c.input_size >= 1
    /\ 1 <= c.seg_threshold /\ c.seg_threshold <= c.num_synapses
    /\ 1 <= c.branch_threshold /\ c.branch_threshold <= c.num_segments
    /\ 1 <= c.trainI /\ c.trainI <= c.num_synapses

\* C7: a configuration with a field outside its valid range is rejected at
\* construction, so every constructed network has a valid configuration.
C7_InvalidConfigRejected ==
    \A n \in Instances : Built(n) => ValidConfig(cfg[n])

\* C8: train_sample with a class label outside [0, num_columns), negative
\* labels included, fails at the call and changes no connectivity table and
\* no trained-flag table.
C8_BadLabelFails ==
    [][\A n \in Instances : \A k \in Labels(cfg[n]) \ Columns(cfg[n]) :
         (/\ Len(trace'[n]) > 0
          /\ TrainSample({n}, trace'[n][1], k))
         => /\ raised'[n] # "none"
            /\ connection_matrices'[n] = connection_matrices[n]
            /\ segment_trained'[n] = segment_trained[n]
      ]_vars

\* C9: a built network has num_layers - 1 connectivity tables and every
\* synapse slot of the table of layer l holds the unwired sentinel or an
\* index below that table's previous size (input_size for layer 1,
\* num_columns * num_types for later layers).
C9_IndexInRange ==
    \A n \in Instances : Built(n) =>
        /\ Len(connection_matrices[n]) = cfg[n].num_layers - 1
        /\ \A l \in LayersOf(n) : \A cell \in Cells(cfg[n]) :
              IF cfg[n].use_sparse_matrix
              THEN \A k \in DOMAIN connection_matrices[n][l][cell] :
                      \/ connection_matrices[n][l][cell][k] = Unwired
                      \/ /\ 0 <= connection_matrices[n][l][cell][k]
                         /\ connection_matrices[n][l][cell][k] < prev_size(cfg[n], l)
              ELSE DOMAIN connection_matrices[n][l][cell]
                       = 0..(prev_size(cfg[n], l) - 1)

\* Sum over branches of the final-layer excitatory activation of a column
Score(n, col) ==
    Cardinality({b \in 0..(cfg[n].num_branches - 1) :
        trace[n][Len(trace[n])][(col * cfg[n].num_types + 0) * cfg[n].num_branches + b]})

WithThresholds(c, t, u) == [c EXCEPT !.seg_threshold = t, !.branch_threshold = u]

\* C11: with the wiring held fixed, for every binary previous-layer vector a
\* segment active under seg_threshold = t + 1 is active under seg_threshold
\* = t, and a branch active under branch_threshold = u + 1 is active under
\* branch_threshold = u.
C11_ThresholdMonotone ==
    \A n \in Instances : Built(n) =>
        \A l \in LayersOf(n) :
          \A prev \in [0..(prev_size(cfg[n], l) - 1) -> BOOLEAN] :
            \A cell \in Cells(cfg[n]) :
              /\ \A t \in 0..cfg[n].num_synapses :
                    SegOn(WithThresholds(cfg[n], t + 1, cfg[n].branch_threshold),
                          connection_matrices[n][l], prev,
                          cell[1], cell[2], cell[3], cell[4])
                      => SegOn(WithThresholds(cfg[n], t, cfg[n].branch_threshold),
                               connection_matrices[n][l], prev,
                               cell[1], cell[2], cell[3], cell[4])
              /\ \A u \in 0..cfg[n].num_segments :
                    BranchOn(WithThresholds(cfg[n], cfg[n].seg_threshold, u + 1),
                             connection_matrices[n][l], prev,
                             cell[1], cell[2], cell[3])
                      => BranchOn(WithThresholds(cfg[n], cfg[n].seg_threshold, u),
                                  connection_matrices[n][l], prev,
                                  cell[1], cell[2], cell[3])

\* C11 witness: on the input of a forward pass that was made, a segment is
\* active under seg_threshold = 1 and inactive under seg_threshold = 2, and
\* its branch is active under branch_threshold = 1 and inactive under 2, in
\* sparse and in dense form.
C11_Witness ==
    \A n \in Instances :
        /\ pc[n] = "eval" /\ trace[n] # <<>>
        /\ SegOn(WithThresholds(cfg[n], 1, 1), connection_matrices[n][1],
                 trace[n][1], 0, 0, 0, 0)
        /\ ~SegOn(WithThresholds(cfg[n], 2, 1), connection_matrices[n][1],
                  trace[n][1], 0, 0, 0, 0)
        /\ BranchOn(WithThresholds(cfg[n], 1, 1), connection_matrices[n][1],
                    trace[n][1], 0, 0, 0)
        /\ ~BranchOn(WithThresholds(cfg[n], 1, 2), connection_matrices[n][1],
                     trace[n][1], 0, 0, 0)

\* Instance n holds a freshly constructed 2-layer network with both
\* thresholds 1
FreshTwoLayer(n) ==
    /\ pc[n] = "ready" /\ samples[n] = 0
    /\ cfg[n].num_layers = 2
    /\ cfg[n].seg_threshold = 1 /\ cfg[n].branch_threshold = 1

\* The excitatory cells of column k that hold a wired synapse in table conn
WiredExcitatory(c, conn, k) ==
    {cell \in CellsOf(c, k, 0) : WiredSet(c, conn[cell]) # {}}

\* C12: on a freshly constructed 2-layer network with seg_threshold = 1 and
\* branch_threshold = 1, train_sample(x, k) for an input x with an active
\* position and a class label k, when it returns, has wired an excitatory
\* segment of column k; every such segment holds only positions where x is
\* 1, forward(x) activates the column-k excitatory branch that contains it,
\* and forward(y) for an input y sharing no active position with x
\* activates no excitatory branch of column k.
C12_TrainThenRecognise ==
    [][\A n \in Instances : \A k \in Columns(cfg[n]) :
         (/\ FreshTwoLayer(n)
          /\ Len(trace'[n]) > 0
          /\ \E i \in DOMAIN trace'[n][1] : trace'[n][1][i]
          /\ TrainSample({n}, trace'[n][1], k))
         => LET c == cfg[n]
                x == trace'[n][1]
                conn == connection_matrices'[n][1]
            IN  /\ raised'[n] = "none" => WiredExcitatory(c, conn, k) # {}
                /\ \A cell \in WiredExcitatory(c, conn, k) :
                      /\ \A i \in WiredSet(c, conn[cell]) : x[i]
                      /\ forward(c, connection_matrices'[n], x)[2][Flat(c, k, 0, cell[3])]
                /\ \A y \in Inputs(c) :
                      (\A i \in DOMAIN x : ~(x[i] /\ y[i]))
                         => \A b \in 0..(c.num_branches - 1) :
                               ~forward(c, connection_matrices'[n], y)[2][Flat(c, k, 0, b)]
      ]_vars

\* C12 witness: a 2-layer network with both thresholds 1 was trained once
\* without error, column 0 holds a wired excitatory segment, and a forward
\* pass on an input covering the wired positions has activated the branch
\* of that segment.
C12_Witness ==
    \E n \in Instances :
        /\ pc[n] = "eval" /\ samples[n] = 1 /\ raised[n] = "none"
        /\ cfg[n].num_layers = 2
        /\ cfg[n].seg_threshold = 1 /\ cfg[n].branch_threshold = 1
        /\ \E cell \in WiredExcitatory(cfg[n], connection_matrices[n][1], 0) :
              /\ \A i \in WiredSet(cfg[n], connection_matrices[n][1][cell]) :
                    trace[n][1][i]
              /\ trace[n][2][Flat(cfg[n], 0, 0, cell[3])]

\* The indices a sequence holds
Range(seq) == {seq[k] : k \in DOMAIN seq}

\* C13: when the source pool of a wiring step is smaller than trainI, the
\* step fills the sparse segment with pool indices (no slot is left
\* unwired), sets in the dense segment exactly the bits of the chosen index
\* set, and the two resulting segments have the same activation for every
\* binary previous-layer vector.
C13_SmallPoolSameActivation ==
    [][\A cell \in Cells(cfg[1]) :
         LET x == trace'[1][1]
             pool == Pool(x, numel(x), cell[2])
             sparse == connection_matrices'[1][1][cell]
             dense == connection_matrices'[2][1][cell]
         IN  (/\ samples'[1] # samples[1]
              /\ sparse # connection_matrices[1][1][cell]
              /\ dense # connection_matrices[2][1][cell]
              /\ Len(pool) < cfg[1].trainI)
             => /\ Range(sparse) \subseteq Range(pool)
                /\ \A i \in DOMAIN dense : dense[i] = (i \in Range(sparse))
                /\ \A prev \in Inputs(cfg[1]) :
                      SegOn(cfg[1], connection_matrices'[1][1], prev,
                            cell[1], cell[2], cell[3], cell[4])
                        = SegOn(cfg[2], connection_matrices'[2][1], prev,
                                cell[1], cell[2], cell[3], cell[4])
      ]_vars

\* A configuration in which the sparse write of a sampled list can fail:
\* trainI is neither num_synapses nor 1
WriteCanRaise(c) ==
    c.use_sparse_matrix /\ c.trainI # c.num_synapses /\ c.trainI # 1

\* C14: when a train_sample call has selected and marked a segment whose
\* source pool is empty, the segment's flag is set and all its slots are
\* left unwired, the call goes on (an inhibitory segment of a so far
\* untouched (layer, column) is selected after the skipped excitatory one),
\* and the skip raises nothing (only a write in a later step can raise).
C14_EmptyPoolSkipped ==
    [][\A n \in Instances : samples'[n] # samples[n] =>
         \A l \in LayersOf(n) : \A cell \in Cells(cfg[n]) :
            (/\ ~segment_trained[n][l][cell] /\ segment_trained'[n][l][cell]
             /\ Pool(trace'[n][l], numel(trace'[n][l]), cell[2]) = <<>>)
            => /\ connection_matrices'[n][l][cell] = EmptySegment(cfg[n], l)
               /\ (/\ cell[2] = 0 /\ cfg[n].num_types = 2
                   /\ \A other \in CellsOf(cfg[n], cell[1], 1) :
                         ~segment_trained[n][l][other])
                     => \E other \in CellsOf(cfg[n], cell[1], 1) :
                           segment_trained'[n][l][other]
               /\ ~WriteCanRaise(cfg[n]) => raised'[n] = "none"
      ]_vars

\* C14 witness: after one sample that returned normally, an excitatory
\* segment of a column is trained and fully unwired while an inhibitory
\* segment of the same column and layer is wired.
C14_Witness ==
    \E n \in Instances : samples[n] = 1 /\ raised[n] = "none" /\ \E l \in LayersOf(n) :
        \E e \in Cells(cfg[n]), i \in Cells(cfg[n]) :
            /\ e[1] = i[1] /\ e[2] = 0 /\ i[2] = 1
            /\ segment_trained[n][l][e]
            /\ connection_matrices[n][l][e] = EmptySegment(cfg[n], l)
            /\ trace[n] # <<>> /\ Pool(trace[n][l], numel(trace[n][l]), 0) = <<>>
            /\ WiredSet(cfg[n], connection_matrices[n][l][i]) # {}

\* The wiring steps of one layer l on the fixed previous activation prev:
\* types in ascending order, Repeats(c) steps each, stopping at a raise
RECURSIVE LayerFrom(_, _, _, _, _, _)
LayerFrom(c, prev, class_id, st, l, j) ==
    IF j >= c.num_types * Repeats(c) \/ st.raised # "none" THEN st
    ELSE LayerFrom(c, prev, class_id,
                   WireStep(c, prev, class_id, st, l, j \div Repeats(c)),
                   l, j + 1)

\* Layers l, l + 1, ... wired one after the other, each from the activation
\* the given trace holds for the layer below it
RECURSIVE AscendingFrom(_, _, _, _, _)
AscendingFrom(c, tr, class_id, st, l) ==
    IF l > c.num_layers - 1 \/ st.raised # "none" THEN st
    ELSE AscendingFrom(c, tr, class_id,
                       LayerFrom(c, tr[l], class_id, st, l, 0), l + 1)

\* C15: a train_sample call leaves what wiring layer 1, then layer 2, ...
\* leaves when every layer reads its pools from the trace of the forward
\* pass made on the tables as they were before the call: that trace is the
\* one the call keeps, and every segment the call wires holds, if
\* excitatory, only units active in it and, if inhibitory, only units
\* inactive in it, whatever the wiring of lower layers did in the call.
C15_PoolsFromPreWiringTrace ==
    [][\A n \in Instances : \A k \in Columns(cfg[n]) :
         (/\ Len(trace'[n]) > 0
          /\ ~ForwardRaises(cfg[n])
          /\ TrainSample({n}, trace'[n][1], k))
         => \A before \in {forward(cfg[n], connection_matrices[n], trace'[n][1])} :
              \A res \in {AscendingFrom(cfg[n], before, k,
                                        [conns |-> connection_matrices[n],
                                         flags |-> segment_trained[n],
                                         pos |-> rng[n], raised |-> "none"], 1)} :
                 /\ trace'[n] = before
                 /\ connection_matrices'[n] = res.conns
                 /\ segment_trained'[n] = res.flags
                 /\ rng'[n] = res.pos
                 /\ raised'[n] = res.raised
                 /\ \A l \in LayersOf(n) : \A cell \in Cells(cfg[n]) :
                       connection_matrices'[n][l][cell] # connection_matrices[n][l][cell]
                          => \A i \in WiredSet(cfg[n], connection_matrices'[n][l][cell]) :
                                before[l][i] = (cell[2] = 0)
      ]_vars

\* C15 witness: in a 3-layer network the last train_sample call wired layer
\* 1 so that a forward pass on the same input now gives another layer-1
\* activation than the trace the call used, and layer 2 was left with a
\* trained excitatory segment that is unwired, its pool in that trace being
\* empty.
C15_Witness ==
    \E n \in Instances :
        /\ pc[n] = "ready" /\ samples[n] > 0 /\ raised[n] = "none"
        /\ cfg[n].num_layers = 3
        /\ forward(cfg[n], connection_matrices[n], trace[n][1])[2] # trace[n][2]
        /\ Pool(trace[n][2], numel(trace[n][2]), 0) = <<>>
        /\ Pool(forward(cfg[n], connection_matrices[n], trace[n][1])[2],
                numel(trace[n][2]), 0) # <<>>
        /\ \E cell \in Cells(cfg[n]) :
              /\ cell[2] = 0 /\ segment_trained[n][2][cell]
              /\ connection_matrices[n][2][cell] = EmptySegment(cfg[n], 2)

\* C16: with sparse storage and trainI in 1..num_synapses, a wiring step
\* with a non-empty pool completes without error and leaves the selected
\* segment holding trainI indices of the pool, its other num_synapses -
\* trainI slots still unwired.
C16_SparsePartialWrite ==
    [][\A n \in Instances :
         (/\ samples'[n] # samples[n]
          /\ cfg[n].use_sparse_matrix
          /\ 1 <= cfg[n].trainI /\ cfg[n].trainI <= cfg[n].num_synapses)
         => \A l \in LayersOf(n) : \A cell \in Cells(cfg[n]) :
               (/\ ~segment_trained[n][l][cell] /\ segment_trained'[n][l][cell]
                /\ Pool(trace'[n][l], numel(trace'[n][l]), cell[2]) # <<>>)
               => LET seg == connection_matrices'[n][l][cell]
                  IN  /\ raised'[n] = "none"
                      /\ Cardinality({k \in DOMAIN seg : seg[k] # Unwired})
                            = cfg[n].trainI
                      /\ Cardinality({k \in DOMAIN seg : seg[k] = Unwired})
                            = cfg[n].num_synapses - cfg[n].trainI
                      /\ WiredSet(cfg[n], seg)
                            \subseteq Range(Pool(trace'[n][l], numel(trace'[n][l]), cell[2]))
      ]_vars

\* C17: in sparse form, the synapse sources visualise_neuron reports for
\* segment (b, s) of the inspected neuron are exactly the wired indices of
\* that segment's own cell (layer, column, type, b, s), for every b and s,
\* and the inspection changes no connectivity, flag or trace state.
C17_VizSourcesOwnCell ==
    [][\A n \in Instances : graph'[n] # graph[n] =>
         /\ connection_matrices'[n] = connection_matrices[n]
         /\ segment_trained'[n] = segment_trained[n]
         /\ trace'[n] = trace[n]
         /\ cfg[n].use_sparse_matrix =>
               LET g == graph'[n][1]
               IN  \A bs \in BranchSegments(cfg[n]) :
                      g.sources[bs]
                        = WiredSet(cfg[n],
                                   connection_matrices[n][g.layer][<<g.column, g.typ,
                                                                     bs[1], bs[2]>>])
      ]_vars

\* C18: whenever a (layer, column, type) holds an untrained (branch,
\* segment) cell, a call of _untrained_segment on it selects an untrained
\* cell (which the call marks trained); it returns None only when every
\* cell is trained.
C18_NoneOnlyWhenExhausted ==
    \A n \in Instances : pc[n] = "ready" =>
        \A l \in LayersOf(n), col \in Columns(cfg[n]), typ \in Types(cfg[n]),
           pos \in 0..(StreamPeriod - 1) :
           \A sel \in {untrained_segment(cfg[n], segment_trained[n][l], col, typ, pos)} :
              ~AllTrained(n, l, col, typ)
                 => /\ sel.found
                    /\ ~segment_trained[n][l][<<col, typ, sel.b, sel.s>>]

\* C19: after construction and after any sequence of train_sample and
\* forward calls, every segment that holds a wired synapse (a non-sentinel
\* index in sparse form, a true mask bit in dense form) has its trained flag
\* set: an untrained segment is fully unwired.
C19_WiredImpliesTrained ==
    \A n \in Instances : Built(n) =>
        \A l \in LayersOf(n), cell \in Cells(cfg[n]) :
           WiredSet(cfg[n], connection_matrices[n][l][cell]) # {}
              => segment_trained[n][l][cell]

C19_Witness ==
    \E n \in Instances :
       /\ pc[n] = "eval"
       /\ samples[n] = MaxSamples
       /\ \E l \in LayersOf(n), cell \in Cells(cfg[n]) :
             /\ WiredSet(cfg[n], connection_matrices[n][l][cell]) # {}
             /\ segment_trained[n][l][cell]
       /\ \E l \in LayersOf(n), cell \in Cells(cfg[n]) :
             /\ ~segment_trained[n][l][cell]
             /\ WiredSet(cfg[n], connection_matrices[n][l][cell]) = {}
====
